---- MODULE Spec2Model ----
(***************************************************************************)
(* Model of src/pages/api/lib/statsStore.ts: the failover-aware store      *)
(* client.  The supervisor part is the module-level state (client, config, *)
(* currentIndex), connect(), init(), setupClientEvents() and the Proxy     *)
(* wrapper; the counter part is FailoverStatsStore.logRequest/getStats.    *)
(*                                                                         *)
(* One action is one run of JavaScript between two awaits (one task of the *)
(* event loop together with the microtasks it leaves behind): the state    *)
(* cannot change inside it, and any other task may run between two of      *)
(* them.  Time is counted in ticks of 1000 ms and kept relative: a timer   *)
(* is the number of ticks left before it may fire (it fires at or after    *)
(* its deadline, never before), a Date.now() value is its age.             *)
(***************************************************************************)
EXTENDS Integers, Sequences, FiniteSets, Bags, TLC

(* ------------------------------ bounds -------------------------------- *)
\* redisConfig.length: the candidate list comes from redis.json
NumEndpoints == 2
\* redisConfig.length in the runs that follow the rotation over three candidates
RotationEndpoints == 3
\* changes of an endpoint's availability in those runs
RotationFlips == 1
\* Redis objects that pass their ping in one run
MaxConns == 4
\* error and close events the connections raise in one run
MaxEvents == 1
\* changes of an endpoint's availability in one run
MaxFlips == 2
\* error and close events in the runs that also call logRequest and getStats
CounterEvents == 2
\* markers held by the backends, plus logRequest calls in flight
MaxMarkers == 1
\* getStats calls in flight
MaxStats == 1
\* ticks a logRequest or getStats call may stay in flight
MaxCallAge == 1

(* ------------------------- program constants -------------------------- *)
\* setTimeout(reject, 3000), in ticks
PING_TIMEOUT == 3
\* setInterval(..., 5000), in ticks
RECOVERY_INTERVAL == 5
\* setTimeout(() => connect(), 2000), in ticks
CLOSE_RETRY_DELAY == 2
\* WINDOW_SIZE = 1000, in ticks
WINDOW_SIZE == 1
\* client.expire(this.KEY, 10): seconds, so ticks
KEY_TTL == 10

\* let client: Redis | null = null
NULL == 0
\* let config: RedisConfig | null = null (a descriptor is named by its index)
NoConfig == -1
\* let currentIndex = -1
NoIndex == -1
\* a key without a time-to-live, a timer that is not armed
Never == -1
\* ages are counted up to here: "older than the time-to-live"
AgeCap == KEY_TTL + 1

VARIABLES
  status,        \* environment: the candidates, and which of them are reachable
  flips,         \* environment: availability changes it may still make
  client,        \* the module's `client`: a connection id or NULL
  config,        \* the module's `config`: an endpoint index or NoConfig
  currentIndex,  \* the module's `currentIndex`
  conns,         \* every Redis object that passed its ping, by id
  cycles,        \* bag of the connect() invocations suspended at line 42
  intervalAt,    \* ticks left to the next run of init's setInterval, or Never
  retryAt,       \* bag of the ticks left of the close observer's setTimeouts
  events,        \* error and close events the connections may still raise
  store,         \* per endpoint: the "live:requests" sorted set and its expiry
  calls,         \* bag of the logRequest/getStats invocations at an await:
                 \* the age of their `now`, the connection their first command
                 \* went to (sent), the one the awaited command went to (target),
                 \* the append a getStats was called right after (after)
  ret            \* what the step just taken returned or had served (cleared
                 \* by the next step)

\* redisConfig (lines 3-9), by index: the list is fixed when the module is loaded
Endpoints == DOMAIN status

\* redisConfig.length
Length == Cardinality(Endpoints)

vars == <<status, flips, client, config, currentIndex, conns, cycles,
          intervalAt, retryAt, events, store, calls, ret>>

supVars == <<client, config, currentIndex, conns, cycles, intervalAt, retryAt, events>>
envVars == <<status, flips>>
storeVars == <<store, calls>>

NoRet == [what |-> "none"]

(* ------------------------------ helpers ------------------------------- *)
Range(s) == {s[i] : i \in 1 .. Len(s)}

One(x) == SetToBag({x})

RECURSIVE BagOfSeq(_)
BagOfSeq(s) == IF s = <<>> THEN EmptyBag ELSE One(Head(s)) (+) BagOfSeq(Tail(s))

RECURSIVE SeqOfBag(_)
\* the elements of a bag, each as often as it is in it, in some order
SeqOfBag(B) ==
  IF B = EmptyBag THEN <<>>
  ELSE LET x == CHOOSE y \in BagToSet(B) : TRUE
       IN <<x>> \o SeqOfBag(B (-) One(x))

RECURSIVE MapSeq(_, _)
MapSeq(F(_), s) == IF s = <<>> THEN <<>> ELSE <<F(Head(s))>> \o MapSeq(F, Tail(s))

\* the bag of F(x) for x in B
MapBag(F(_), B) == BagOfSeq(MapSeq(F, SeqOfBag(B)))

Dec(n) == IF n > 0 THEN n - 1 ELSE n

Older(a) == IF a < AgeCap THEN a + 1 ELSE a

(* ----------------------------- connect() ------------------------------ *)
\* line 18: const startFrom = currentIndex === -1 ? 0 : (currentIndex + 1) % length
StartFrom(cur) == IF cur = NoIndex THEN 0 ELSE (cur + 1) % Length

\* line 57: index = (index + 1) % redisConfig.length
NextIndex(index) == (index + 1) % Length

LoopContinuesVsCurrent(index, startFrom) == index # currentIndex

\* line 58: } while (index !== startFrom)
LoopContinues(index, startFrom) == index # startFrom

\* lines 18-42 up to the first await: a new invocation, its first probe sent
\* and the 3000 ms timer of the race started
NewCycle(kind) ==
  [kind |-> kind, start |-> StartFrom(currentIndex),
   index |-> StartFrom(currentIndex), tried |-> <<>>, left |-> PING_TIMEOUT]

\* the model stops creating Redis objects at MaxConns
CanStart == Len(conns) + BagCardinality(cycles) < MaxConns

\* line 42: how the race of redis.ping() against the 3000 ms timer can end
\* against a reachable endpoint (the ping resolves) and against an unreachable
\* one (the ping rejects with an Error once ioredis gives up, or nothing comes
\* back and the timer wins)
ProbeOutcomes(cy) ==
  IF status[cy.index] = "up" THEN {"ok"}
  ELSE {"fail"} \cup (IF cy.left = 0 THEN {"timeout"} ELSE {})

\* lines 84-101: what setupClientEvents does to the connection table
SetupClientEvents(cs, cl, cf) ==
  IF cl = NULL \/ cf = NoConfig THEN cs
  ELSE [cs EXCEPT ![cl].listeners = TRUE]

\* line 45: if (client) client.quit()
QuitOld(cs, cl) == IF cl = NULL THEN cs ELSE [cs EXCEPT ![cl].state = "quit"]

InstallKeepsIndex(index) == currentIndex

\* line 48: currentIndex = index
InstalledIndex(index) == index

ClearKeepsIndex == currentIndex

\* line 63: currentIndex = -1
ClearedIndex == NoIndex

ProbeRet(cy, outcome, result, conn) ==
  [what |-> "probe", kind |-> cy.kind, outcome |-> outcome, result |-> result,
   idx |-> cy.index, conn |-> conn, probes |-> Len(cy.tried) + 1]

\* lines 44-51, then what the caller does with `true`: init (line 69) nothing,
\* line 104 and the Proxy (line 111) setupClientEvents
ProbeOk(cy) ==
  LET id == Len(conns) + 1
      fresh == [idx |-> cy.index, listeners |-> FALSE, state |-> "open"]
      cs == Append(QuitOld(conns, client), fresh)
  IN /\ client' = id
     /\ config' = cy.index
     /\ currentIndex' = InstalledIndex(cy.index)
     /\ conns' = IF cy.kind = "init" THEN cs ELSE SetupClientEvents(cs, id, cy.index)
     /\ cycles' = cycles (-) One(cy)
     /\ ret' = ProbeRet(cy, "ok", "installed", id)
     /\ UNCHANGED <<intervalAt, retryAt, events>>

\* lines 52-58 with the loop going on: the next candidate's probe is sent
ProbeFailNext(cy) ==
  /\ LoopContinues(NextIndex(cy.index), cy.start)
  /\ cycles' = (cycles (-) One(cy)) (+)
                 One([cy EXCEPT !.tried = Append(cy.tried, cy.index),
                                !.index = NextIndex(cy.index),
                                !.left = PING_TIMEOUT])
  /\ ret' = ProbeRet(cy, "fail", "next", NULL)
  /\ UNCHANGED <<client, config, currentIndex, conns, intervalAt, retryAt, events>>

\* lines 52-64 with the loop over: total failure; init (lines 69-77) arms the
\* interval, line 104 runs setupClientEvents, which returns at line 85
ProbeFailLast(cy) ==
  /\ ~LoopContinues(NextIndex(cy.index), cy.start)
  /\ client' = NULL
  /\ config' = NoConfig
  /\ currentIndex' = ClearedIndex
  /\ cycles' = cycles (-) One(cy)
  /\ intervalAt' = IF cy.kind = "init" THEN RECOVERY_INTERVAL ELSE intervalAt
  /\ ret' = ProbeRet(cy, "fail", "failed", NULL)
  /\ UNCHANGED <<conns, retryAt, events>>

\* line 42 lost to setTimeout(reject, 3000): reject is called without a reason,
\* so `err` is undefined at line 53 and `(err as Error).message` throws a
\* TypeError out of the catch block: connect() rejects where it stands.  init's
\* promise is caught at line 81; the other callers leave the rejection unhandled.
ProbeTimeout(cy) ==
  /\ cycles' = cycles (-) One(cy)
  /\ ret' = ProbeRet(cy, "timeout", "threw", NULL)
  /\ UNCHANGED <<client, config, currentIndex, conns, intervalAt, retryAt, events>>

\* the continuation of one connect() invocation after the await of line 42
ProbeStep ==
  /\ \E cy \in BagToSet(cycles) :
       \E o \in ProbeOutcomes(cy) :
          \/ o = "ok" /\ ProbeOk(cy)
          \/ o = "fail" /\ ProbeFailNext(cy)
          \/ o = "fail" /\ ProbeFailLast(cy)
          \/ o = "timeout" /\ ProbeTimeout(cy)
  /\ UNCHANGED <<envVars, storeVars>>

(* ------------------------ observers and timers ------------------------ *)
\* Connection c raises 'error'.  With the observer of lines 87-94 registered
\* on c, it runs: config.name at line 88 throws when config is null, before
\* anything else is done.  With no observer on c, ioredis logs the error and
\* the module is not told.
ErrorEvent ==
  /\ events > 0
  /\ \E c \in 1 .. Len(conns) :
       LET broken == [conns EXCEPT ![c].state = "broken"]
       IN IF ~conns[c].listeners \/ config = NoConfig
          THEN /\ conns' = broken
               /\ UNCHANGED <<client, cycles>>
          ELSE /\ CanStart
               /\ conns' = IF client = NULL THEN broken
                           ELSE [broken EXCEPT ![client].listeners = FALSE]
               /\ client' = NULL
               /\ cycles' = cycles (+) One(NewCycle("proxy"))
  /\ events' = events - 1
  /\ ret' = NoRet
  /\ UNCHANGED <<config, currentIndex, intervalAt, retryAt, envVars, storeVars>>

\* Connection c raises 'close'.  With the observer of lines 96-100 registered
\* on c, it runs; with no observer on c, the module is not told.
CloseEvent ==
  /\ events > 0
  /\ \E c \in 1 .. Len(conns) :
       /\ conns' = [conns EXCEPT ![c].state = "closed"]
       /\ IF conns[c].listeners
          THEN /\ client' = NULL
               /\ retryAt' = retryAt (+) One(CLOSE_RETRY_DELAY)
          ELSE UNCHANGED <<client, retryAt>>
  /\ events' = events - 1
  /\ ret' = NoRet
  /\ UNCHANGED <<config, currentIndex, cycles, intervalAt, envVars, storeVars>>

\* line 99: the timeout's callback, () => connect()
RetryFire ==
  /\ CanStart
  /\ BagIn(0, retryAt)
  /\ retryAt' = retryAt (-) One(0)
  /\ cycles' = cycles (+) One(NewCycle("proxy"))
  /\ ret' = NoRet
  /\ UNCHANGED <<client, config, currentIndex, conns, intervalAt, events,
                 envVars, storeVars>>

\* lines 71-76: the interval's callback
IntervalFire ==
  /\ intervalAt = 0
  /\ client = NULL => CanStart
  /\ intervalAt' = RECOVERY_INTERVAL
  /\ cycles' = IF client = NULL THEN cycles (+) One(NewCycle("proxy")) ELSE cycles
  /\ ret' = NoRet
  /\ UNCHANGED <<client, config, currentIndex, conns, retryAt, events,
                 envVars, storeVars>>

(* ---------------------------- environment ----------------------------- *)
\* an endpoint becomes reachable or unreachable
Flip ==
  /\ flips > 0
  /\ \E e \in Endpoints :
       status' = [status EXCEPT ![e] = IF status[e] = "up" THEN "down" ELSE "up"]
  /\ flips' = flips - 1
  /\ ret' = NoRet
  /\ UNCHANGED <<supVars, storeVars>>

\* a sorted set one tick later: every marker older, the key dropped by Redis
\* when its time-to-live has run out
AgeKey(k) ==
  IF k.ttl = 1 THEN [markers |-> EmptyBag, ttl |-> Never]
  ELSE [markers |-> MapBag(Older, k.markers), ttl |-> Dec(k.ttl)]

AgeCycle(cy) == [cy EXCEPT !.left = Dec(cy.left)]

AgeCall(ca) == [ca EXCEPT !.age = ca.age + 1]

\* 1000 ms pass
Tick ==
  /\ \A ca \in BagToSet(calls) : ca.age < MaxCallAge
  /\ cycles' = MapBag(AgeCycle, cycles)
  /\ retryAt' = MapBag(Dec, retryAt)
  /\ intervalAt' = Dec(intervalAt)
  /\ store' = [e \in Endpoints |-> AgeKey(store[e])]
  /\ calls' = MapBag(AgeCall, calls)
  /\ ret' = NoRet
  /\ UNCHANGED <<status, flips, client, config, currentIndex, conns, events>>

(* ----------------------- FailoverStatsStore --------------------------- *)
SupervisorCleared ==
  /\ client' = NULL
  /\ UNCHANGED <<config, currentIndex, conns, cycles, intervalAt, retryAt, events>>

\* lines 129-169: logRequest and getStats read `client` and assign nothing of
\* the module's state; they call no connect()
SupervisorUntouched == UNCHANGED supVars

\* the markers of every backend together
TotalMarkers ==
  LET RECURSIVE Sum(_)
      Sum(E) == IF E = {} THEN 0
                ELSE LET e == CHOOSE x \in E : TRUE
                     IN BagCardinality(store[e].markers) + Sum(E \ {e})
  IN Sum(Endpoints)

InFlight(op) == BagCardinality(BagOfSeq(SelectSeq(SeqOfBag(calls), LAMBDA ca : ca.op = op)))

\* how a command sent over connection c can end: with its reply, or rejected
\* (the server is gone, or ioredis gives up after maxRetriesPerRequest)
CmdOutcomes(c) == IF status[conns[c].idx] = "up" THEN {"ok", "err"} ELSE {"err"}

\* ZADD key score member: the member is new (`${now}-${Math.random()}`), its
\* score is the `now` of line 135, `age` ticks ago
ZAdd(k, age) == [k EXCEPT !.markers = k.markers (+) One(age)]

\* EXPIRE key 10: nothing for a key that does not exist
ExpireKey(k) == IF k.markers = EmptyBag THEN k ELSE [k EXCEPT !.ttl = KEY_TTL]

ExpiredAtNow(k, age) == BagOfSeq(SelectSeq(SeqOfBag(k.markers), LAMBDA a : a >= age))

\* the members ZREMRANGEBYSCORE key 0 cutoff removes, for the cutoff of a call
\* `age` ticks old: score <= now - WINDOW_SIZE
Expired(k, age) == BagOfSeq(SelectSeq(SeqOfBag(k.markers), LAMBDA a : a >= age + WINDOW_SIZE))

\* ZREMRANGEBYSCORE key 0 cutoff: a sorted set left empty is deleted
ZRemRangeByScore(k, age) ==
  LET kept == k.markers (-) Expired(k, age)
  IN IF kept = EmptyBag THEN [markers |-> EmptyBag, ttl |-> Never]
     ELSE [k EXCEPT !.markers = kept]

\* ZCARD key
ZCard(k) == BagCardinality(k.markers)

LogRet(offline, cmds, failed, outcome) ==
  [what |-> "log", offline |-> offline, cmds |-> cmds, failed |-> failed,
   outcome |-> outcome]

LogRequestRethrows(cmds) == LogRet(FALSE, cmds, TRUE, "rejected")

\* lines 141-144: the catch block of logRequest logs and falls through
LogRequestCatch(cmds) == LogRet(FALSE, cmds, TRUE, "resolved")

\* what a getStats call returned; stale: the markers it counted although their
\* timestamp is at or before its cutoff; moved: it counted on another
\* backend than the one it trimmed
StatsRet(offline, cmds, failed, outcome, total, rps, stale, moved) ==
  [what |-> "stats", offline |-> offline, cmds |-> cmds, failed |-> failed,
   outcome |-> outcome, total |-> total, rps |-> rps, stale |-> stale,
   moved |-> moved]

GetStatsRethrows(cmds) == StatsRet(FALSE, cmds, TRUE, "rejected", 0, 0, 0, FALSE)

\* lines 165-168: the catch block of getStats logs and returns {0, 0}
GetStatsCatch(cmds) == StatsRet(FALSE, cmds, TRUE, "resolved", 0, 0, 0, FALSE)

QueuedCalls ==
  calls (+) One([op |-> "log", pc |-> "queued", age |-> 0, sent |-> NULL,
                 target |-> NULL, after |-> Never])

\* lines 130-133: the call returns and nothing is kept of it
DroppedCalls == calls

\* lines 129-139: logRequest up to its first await
LogCall ==
  /\ client # NULL => TotalMarkers + InFlight("log") < MaxMarkers
  /\ IF client = NULL
     THEN /\ ret' = LogRet(TRUE, 0, FALSE, "resolved")
          /\ calls' = DroppedCalls
     ELSE /\ calls' = calls (+) One([op |-> "log", pc |-> "zadd", age |-> 0,
                                     sent |-> client, target |-> client,
                                     after |-> Never])
          /\ ret' = NoRet
  /\ SupervisorUntouched
  /\ UNCHANGED <<store, envVars>>

\* line 139 has been served: the marker is in the collection, logRequest goes on
Appended(ca) == [what |-> "append", conn |-> ca.target, age |-> ca.age]

\* line 139 settles; line 140 reads `client` again: null is a TypeError that
\* the catch block takes
LogZadd ==
  /\ \E ca \in BagToSet(calls) :
       /\ ca.op = "log" /\ ca.pc = "zadd"
       /\ \E o \in CmdOutcomes(ca.target) :
            LET e == conns[ca.target].idx
            IN \/ /\ o = "ok"
                  /\ store' = [store EXCEPT ![e] = ZAdd(store[e], ca.age)]
                  /\ IF client = NULL
                     THEN /\ calls' = calls (-) One(ca)
                          /\ ret' = LogRequestCatch(1)
                     ELSE /\ calls' = (calls (-) One(ca)) (+)
                                       One([ca EXCEPT !.pc = "expire", !.target = client])
                          /\ ret' = Appended(ca)
               \/ /\ o = "err"
                  /\ calls' = calls (-) One(ca)
                  /\ ret' = LogRequestCatch(1)
                  /\ UNCHANGED store
  /\ SupervisorUntouched
  /\ UNCHANGED envVars

\* line 140 settles
LogExpire ==
  /\ \E ca \in BagToSet(calls) :
       /\ ca.op = "log" /\ ca.pc = "expire"
       /\ calls' = calls (-) One(ca)
       /\ \E o \in CmdOutcomes(ca.target) :
            LET e == conns[ca.target].idx
            IN \/ /\ o = "ok"
                  /\ store' = [store EXCEPT ![e] = ExpireKey(store[e])]
                  /\ ret' = LogRet(FALSE, 2, FALSE, "resolved")
               \/ /\ o = "err"
                  /\ ret' = LogRequestCatch(2)
                  /\ UNCHANGED store
  /\ SupervisorUntouched
  /\ UNCHANGED envVars

\* lines 151-153: the offline reading
OfflineReading == StatsRet(TRUE, 0, FALSE, "resolved", 0, 0, 0, FALSE)

\* the call is made right after a ZADD was served over connection c: the age
\* of that ZADD's score, else Never
Followed(c) == IF ret.what = "append" /\ ret.conn = c THEN ret.age ELSE Never

\* lines 147-158: getStats up to its first await
StatsCall ==
  /\ InFlight("stats") < MaxStats
  /\ IF client = NULL
     THEN /\ ret' = OfflineReading
          /\ UNCHANGED calls
     ELSE /\ calls' = calls (+) One([op |-> "stats", pc |-> "trim", age |-> 0,
                                     sent |-> client, target |-> client,
                                     after |-> Followed(client)])
          /\ ret' = NoRet
  /\ SupervisorUntouched
  /\ UNCHANGED <<store, envVars>>

\* line 158 settles; line 159 reads `client` again
StatsTrim ==
  /\ \E ca \in BagToSet(calls) :
       /\ ca.op = "stats" /\ ca.pc = "trim"
       /\ \E o \in CmdOutcomes(ca.target) :
            LET e == conns[ca.target].idx
            IN \/ /\ o = "ok"
                  /\ store' = [store EXCEPT ![e] = ZRemRangeByScore(store[e], ca.age)]
                  /\ IF client = NULL
                     THEN /\ calls' = calls (-) One(ca)
                          /\ ret' = GetStatsCatch(1)
                     ELSE /\ calls' = (calls (-) One(ca)) (+)
                                       One([ca EXCEPT !.pc = "count", !.target = client])
                          /\ ret' = NoRet
               \/ /\ o = "err"
                  /\ calls' = calls (-) One(ca)
                  /\ ret' = GetStatsCatch(1)
                  /\ UNCHANGED store
  /\ SupervisorUntouched
  /\ UNCHANGED envVars

RateOverTwoSeconds(count) == count \div 2

\* line 163: requestsPerSecond: count
RequestsPerSecond(count) == count

\* how the call that returns a count ran: the append it was called right
\* after, whether both commands went over one connection, the age of its `now`
Ran(ca) == [after |-> ca.after, same |-> ca.sent = ca.target, age |-> ca.age]

\* lines 159-164: line 159 settles and the count is returned twice
StatsCount ==
  /\ \E ca \in BagToSet(calls) :
       /\ ca.op = "stats" /\ ca.pc = "count"
       /\ calls' = calls (-) One(ca)
       /\ \E o \in CmdOutcomes(ca.target) :
            LET k == store[conns[ca.target].idx]
            IN \/ /\ o = "ok"
                  /\ ret' = StatsRet(FALSE, 2, FALSE, "resolved", ZCard(k),
                                     RequestsPerSecond(ZCard(k)),
                                     BagCardinality(Expired(k, ca.age)),
                                     conns[ca.target].idx # conns[ca.sent].idx)
                             @@ Ran(ca)
               \/ /\ o = "err"
                  /\ ret' = GetStatsCatch(2)
  /\ SupervisorUntouched
  /\ UNCHANGED <<store, envVars>>

(* ------------------------------- spec --------------------------------- *)
\* The state once the module has been evaluated: init() (line 81) and
\* connect() (line 104) have both run to their first await, each with its own
\* probe of candidate 0 in flight; connect is the Proxy from line 108 on.
Loaded ==
  /\ client = NULL
  /\ config = NoConfig
  /\ currentIndex = NoIndex
  /\ conns = <<>>
  /\ cycles = One([kind |-> "init", start |-> 0, index |-> 0, tried |-> <<>>,
                   left |-> PING_TIMEOUT])
              (+) One([kind |-> "first", start |-> 0, index |-> 0, tried |-> <<>>,
                       left |-> PING_TIMEOUT])
  /\ intervalAt = Never
  /\ retryAt = EmptyBag
  /\ store = [e \in Endpoints |-> [markers |-> EmptyBag, ttl |-> Never]]
  /\ calls = EmptyBag
  /\ ret = NoRet

\* a candidate list of n descriptors, each endpoint reachable or not
Candidates(n) == [0 .. (n - 1) -> {"up", "down"}]

Init ==
  /\ status \in Candidates(NumEndpoints)
  /\ Loaded
  /\ events = MaxEvents
  /\ flips = MaxFlips

\* availability is drawn here and stays as drawn
CounterInit ==
  /\ status \in Candidates(NumEndpoints)
  /\ Loaded
  /\ events = CounterEvents
  /\ flips = 0

\* a list of three candidates, as in the spec's walk-through of the rotation
RotationInit ==
  /\ status \in Candidates(RotationEndpoints)
  /\ Loaded
  /\ events = MaxEvents
  /\ flips = RotationFlips

\* the supervisor and its environment
Next ==
  \/ ProbeStep
  \/ ErrorEvent
  \/ CloseEvent
  \/ RetryFire
  \/ IntervalFire
  \/ Flip
  \/ Tick

\* the supervisor, its environment and the callers of the store
CounterNext ==
  \/ ProbeStep
  \/ ErrorEvent
  \/ CloseEvent
  \/ RetryFire
  \/ IntervalFire
  \/ Tick
  \/ LogCall
  \/ LogZadd
  \/ LogExpire
  \/ StatsCall
  \/ StatsTrim
  \/ StatsCount

\* No store action writes a supervisor variable and a call in flight can
\* always settle, so the supervisor behaves under CounterNext as under Next.
Spec == Init /\ [][Next]_vars

CounterSpec == CounterInit /\ [][CounterNext]_vars

\* the supervisor over three candidates
RotationSpec == RotationInit /\ [][Next]_vars

(* ------------------------------ claims -------------------------------- *)
\* C1: at most one probing cycle of connect() is in flight at any time.
C1_OneCycleInFlight == BagCardinality(cycles) <= 1

\* C2 as stated: client is set if and only if currentIndex is set, and then
\* the index is that of the endpoint the connection was opened against.
C2_ConnectionIffIndex ==
  /\ (client # NULL) <=> (currentIndex # NoIndex)
  /\ client # NULL => currentIndex = conns[client].idx

\* C2 amended: whenever client is set, currentIndex (and config) is set and is
\* the endpoint the connection was opened against; the index may outlive the
\* connection.
C2_ConnectionImpliesIndex ==
  client # NULL => /\ currentIndex = conns[client].idx
                   /\ config = conns[client].idx

\* a connection is current again after an observer cleared the one before it
C2_Witness == client # NULL /\ events < MaxEvents /\ Len(conns) >= 3

\* C3: a probe that loses the race against the 3000 ms timer is handled like
\* a failed one: the cycle goes on to the next candidate or ends in total
\* failure; it does not raise.
C3_TimeoutLikeFailure ==
  (ret.what = "probe" /\ ret.outcome = "timeout") => ret.result \in {"next", "failed"}

\* C4: after a total failure, once an endpoint is reachable for good, a
\* connection eventually becomes current.  For that, in every such state with
\* no connection current, something that will run connect() again has to be
\* pending: a cycle, the interval, a close retry, or an observed connection.
C4_RecoveryPending ==
  (/\ client = NULL /\ currentIndex = NoIndex /\ conns # <<>>
   /\ flips = 0 /\ \E e \in Endpoints : status[e] = "up")
  => \/ cycles # EmptyBag
     \/ retryAt # EmptyBag
     \/ intervalAt # Never
     \/ \E c \in 1 .. Len(conns) : conns[c].listeners

\* C5: one cycle probes each candidate at most once and makes at most
\* Length probes before it installs a connection or declares failure.
C5_AtMostOneCircle ==
  /\ \A cy \in BagToSet(cycles) :
       /\ Len(cy.tried) < Length
       /\ cy.index \notin Range(cy.tried)
       /\ \A i, j \in 1 .. Len(cy.tried) : i # j => cy.tried[i] # cy.tried[j]
  /\ ret.what = "probe" => ret.probes <= Length

\* a cycle has just declared total failure after a full circle
C5_Witness == ret.what = "probe" /\ ret.result = "failed" /\ ret.probes = Length

\* C6: when connect() returns true the connection it probed is current, with
\* the index of its endpoint; when it returns false nothing is current and no
\* index is set.
C6_ReturnState ==
  ret.what = "probe" =>
    /\ ret.result = "installed" =>
         /\ client = ret.conn /\ client # NULL
         /\ currentIndex = ret.idx
         /\ conns[client].idx = ret.idx
    /\ ret.result = "failed" =>
         /\ client = NULL
         /\ currentIndex = NoIndex

\* a cycle has just ended in total failure while an earlier connection was
\* installed
C6_Witness == ret.what = "probe" /\ ret.result = "failed" /\ conns # <<>>

\* C7: logRequest and getStats always resolve, they never reject.
C7_NeverRejects == ret.what \in {"log", "stats"} => ret.outcome = "resolved"

\* logRequest has just resolved although, after its ZADD was served, client
\* was null at line 140
C7_Witness ==
  /\ ret.what = "log" /\ ret.failed /\ ret.cmds = 1
  /\ client = NULL /\ TotalMarkers = 1

\* C8: a getStats that returns a count includes no marker whose timestamp is
\* at or before its cutoff, also when the connection was replaced between the
\* trim and the count.
C8_NoExpiredCounted ==
  (ret.what = "stats" /\ ~ret.offline /\ ~ret.failed /\ ret.moved) => ret.stale = 0

\* C9: every marker in a backend's collection is at most the 10 s
\* time-to-live old.
C9_RetentionCeiling ==
  \A e \in Endpoints : \A a \in BagToSet(store[e].markers) : a <= KEY_TTL

\* C10: getStats called with no connection current returns {0, 0} without
\* sending a command, and returns {0, 0} when a command of the call fails.
C10_OfflineReading ==
  ret.what = "stats" =>
    /\ ret.offline => /\ ret.outcome = "resolved" /\ ret.cmds = 0
                       /\ ret.total = 0 /\ ret.rps = 0
    /\ ret.failed => /\ ret.outcome = "resolved"
                      /\ ret.total = 0 /\ ret.rps = 0

\* getStats has just failed on a command while a backend holds a marker
C10_Witness == ret.what = "stats" /\ ret.failed /\ ret.cmds = 2 /\ TotalMarkers = 1

\* C11: a logRequest called while no connection is current is dropped: it
\* resolves without sending a command, no backend's collection or
\* time-to-live changes, and no call is left in flight that could append the
\* event later; a collection only grows by the ZADD of a call that found a
\* connection when it was made.
C11_DroppedWhenOffline ==
  [][/\ (ret'.what = "log" /\ ret'.offline) =>
          /\ client = NULL
          /\ ret'.outcome = "resolved" /\ ret'.cmds = 0
          /\ store' = store
          /\ calls' = calls
     /\ client = NULL => InFlight("log")' <= InFlight("log")
     /\ TotalMarkers' > TotalMarkers =>
          \E ca \in BagToSet(calls) :
             ca.op = "log" /\ ca.pc = "zadd" /\ ca.sent # NULL]_vars

\* a logRequest has just been dropped after the connection was lost over
\* which an earlier one had stored its marker
C11_Witness == ret.what = "log" /\ ret.offline /\ client = NULL /\ TotalMarkers = 1

C13_RateEqualsTotal == ret.what = "stats" => ret.rps = ret.total

\* getStats has just returned a count that is not zero
C13_Witness == ret.what = "stats" /\ ~ret.offline /\ ~ret.failed /\ ret.total >= 1

\* the candidates of the spec's walk-through, [A down, B up, C up], with no
\* endpoint having changed since the module was loaded
WalkThrough ==
  /\ status = [e \in 0 .. 2 |-> IF e = 0 THEN "down" ELSE "up"]
  /\ flips = RotationFlips

\* C14: a cycle starts probing at index 0 when no index is set, otherwise at
\* the index after the current one, and probes in circular order, so that the
\* connection it installs is the first reachable candidate in that order; with
\* the candidates [A down, B up, C up] the cycles started at load end by
\* installing B and the cycle run after B has closed ends by installing C.
C14_CircularOrder ==
  /\ [](/\ \A cy \in BagToSet(cycles) :
             /\ cy.index = (cy.start + Len(cy.tried)) % Length
             /\ \A i \in 1 .. Len(cy.tried) :
                  cy.tried[i] = (cy.start + i - 1) % Length
        /\ (WalkThrough /\ ret.what = "probe" /\ ret.result # "next") =>
             /\ ret.result = "installed"
             /\ ret.idx = IF ret.kind = "proxy" THEN 2 ELSE 1)
  /\ [][\A cy \in BagToSet(cycles') :
          (/\ CopiesIn(cy, cycles') > CopiesIn(cy, cycles)
           /\ cy.tried = <<>> /\ cy.left = PING_TIMEOUT)
          => /\ cy.index = cy.start
             /\ cy.start = IF currentIndex = NoIndex THEN 0
                            ELSE (currentIndex + 1) % Length]_vars

\* C15: whenever a connection is current (its installing step and what the
\* caller of connect() does with the result being over), the error and close
\* observers are registered on it.
C15_ObserversRegistered == client # NULL => conns[client].listeners

\* C16: when the current connection closes, client is cleared, no cycle is
\* started in the same step, and exactly one call of connect() is scheduled,
\* which starts no sooner than 2000 ms later.
C16_CloseSchedulesOneRetry ==
  [][/\ (/\ client # NULL
          /\ conns[client].state # "closed"
          /\ conns'[client].state = "closed")
         => /\ client' = NULL
            /\ cycles' = cycles
            /\ retryAt' = retryAt (+) One(CLOSE_RETRY_DELAY)
     /\ BagCardinality(retryAt') < BagCardinality(retryAt)
         => /\ BagIn(0, retryAt)
            /\ retryAt' = retryAt (-) One(0)
            /\ BagCardinality(cycles') = BagCardinality(cycles) + 1]_vars

\* C17: when the current connection raises a transport error, its observers
\* are detached, client is cleared while currentIndex is kept, and one cycle
\* is started in the same step, at the candidate after the failed one.
C17_ErrorFailsOver ==
  [][(/\ client # NULL
      /\ conns[client].state # "broken"
      /\ conns'[client].state = "broken")
     => LET next == (conns[client].idx + 1) % Length
        IN /\ ~conns'[client].listeners
           /\ client' = NULL
           /\ currentIndex' = currentIndex
           /\ cycles' = cycles (+) One([kind |-> "proxy", start |-> next,
                                        index |-> next, tried |-> <<>>,
                                        left |-> PING_TIMEOUT])]_vars

\* the awaits the calls in flight are at
PcBag(B) == MapBag(LAMBDA ca : ca.pc, B)

\* a step of logRequest or getStats: a call returns, has its append served,
\* is begun, or goes on to its next command
CallStep ==
  \/ ret'.what \in {"log", "stats", "append"}
  \/ PcBag(calls') # PcBag(calls)

\* C18: no step of logRequest or getStats changes the supervisor's state or
\* starts a cycle, whether the call succeeds, finds no connection or has a
\* command fail.
C18_CallsLeaveSupervisor ==
  [][CallStep => UNCHANGED <<client, config, currentIndex, conns, cycles,
                             intervalAt, retryAt, events>>]_vars

\* a command of a call has just failed while its connection stays current
\* and nothing is started to replace it
C18_Witness ==
  /\ ret.what \in {"log", "stats"} /\ ret.failed
  /\ client # NULL /\ cycles = EmptyBag /\ retryAt = EmptyBag

\* C19: an error or close event of a connection that is not the current one
\* leaves the current connection current and its observers registered.
C19_StaleEventsIgnored ==
  [][\A c \in 1 .. Len(conns) :
       (/\ client # NULL /\ c # client
        /\ conns'[c].state \in {"broken", "closed"}
        /\ conns'[c].state # conns[c].state)
       => /\ client' = client
          /\ conns'[client].listeners = conns[client].listeners]_vars

\* C20: every connection that passed its ping is the current one, or has been
\* released with quit, or has raised an error or a close.
C20_NoOrphanedConnection ==
  \A c \in 1 .. Len(conns) : conns[c].state = "open" => c = client
====
